---- MODULE Spec2Model ----
(***************************************************************************)
(* The symptom checker of medilink.py: the knowledge tables SYMPTOMS,      *)
(* RED_FLAGS and CONDITIONS, the two pure functions score_conditions and   *)
(* red_flag_messages, and the "Symptom Checker" page that feeds them a     *)
(* selection and shows what they return.                                   *)
(*                                                                         *)
(* Strings are kept as in the source, except that the non-ASCII characters *)
(* of four literals are spelled in ASCII (">=38C" for the temperature      *)
(* label, " - " for the dash of two messages, no siren sign in the two     *)
(* emergency profile names).  No code compares parts of these strings.     *)
(***************************************************************************)
EXTENDS Integers, Sequences, FiniteSets

\* The longest input list the model hands to the two functions.
MaxSelected == 3

----------------------------------------------------------------------------
\* Knowledge tables

SYMPTOMS ==
  << "fever", "headache", "chills", "vomiting", "diarrhea", "abdominal pain",
     "cough", "sore throat", "runny nose", "difficulty breathing",
     "chest pain", "fatigue", "loss of appetite", "joint pain",
     "rash", "dizziness", "high temperature (>=38C)", "bloody stool",
     "shortness of breath", "sweating", "nausea", "weight loss", "night sweats",
     "persistent cough", "frequent urination", "excessive thirst", "stiffness",
     "swelling" >>

\* A dict is modelled as the sequence of its items, in insertion order.
RED_FLAGS ==
  << <<"chest pain", "Chest pain can indicate a heart or lung emergency.">>,
     <<"difficulty breathing", "Breathing difficulty is an emergency sign.">>,
     <<"shortness of breath", "Shortness of breath may require urgent care.">>,
     <<"bloody stool", "Blood in stool can be serious; seek urgent care.">>,
     <<"high temperature (>=38C)", "High fever with other symptoms may need urgent care.">>,
     <<"persistent vomiting", "Risk of dehydration; seek care if severe.">>,
     <<"severe abdominal pain", "Could indicate appendicitis or another emergency.">>,
     <<"sudden weakness or slurred speech", "Possible stroke - seek emergency care immediately.">> >>

CONDITIONS ==
  << [name |-> "Malaria",
      weights |-> << <<"fever", 3>>, <<"chills", 2>>, <<"headache", 2>>, <<"fatigue", 1>>,
                     <<"high temperature (>=38C)", 2>>, <<"vomiting", 1>> >>,
      advice |-> "Possible malaria. Rest, hydrate, and seek testing/treatment at a clinic.",
      threshold |-> 4],
     [name |-> "Typhoid",
      weights |-> << <<"fever", 2>>, <<"abdominal pain", 2>>, <<"headache", 1>>,
                     <<"diarrhea", 2>>, <<"loss of appetite", 1>>, <<"vomiting", 1>> >>,
      advice |-> "Possible typhoid. Drink clean water and see a doctor for testing.",
      threshold |-> 4],
     [name |-> "Common Cold / Flu",
      weights |-> << <<"cough", 1>>, <<"sore throat", 2>>, <<"runny nose", 2>>,
                     <<"fatigue", 1>>, <<"headache", 1>>, <<"fever", 1>> >>,
      advice |-> "Likely a cold or flu. Rest, fluids, and over-the-counter symptomatic care.",
      threshold |-> 3],
     [name |-> "COVID-19 (possible)",
      weights |-> << <<"fever", 2>>, <<"cough", 2>>, <<"sore throat", 1>>,
                     <<"loss of appetite", 1>>, <<"fatigue", 2>>, <<"difficulty breathing", 3>> >>,
      advice |-> "Symptoms may match a respiratory infection such as COVID-19. Isolate and seek testing if available.",
      threshold |-> 4],
     [name |-> "Lower Respiratory Infection / Asthma",
      weights |-> << <<"cough", 2>>, <<"difficulty breathing", 3>>, <<"chest pain", 2>>,
                     <<"shortness of breath", 3>>, <<"fatigue", 1>> >>,
      advice |-> "Possible chest infection or asthma exacerbation. Seek medical help if breathing is hard.",
      threshold |-> 4],
     [name |-> "Gastroenteritis / Food Poisoning",
      weights |-> << <<"vomiting", 2>>, <<"diarrhea", 2>>, <<"abdominal pain", 1>>,
                     <<"nausea", 1>>, <<"high temperature (>=38C)", 1>> >>,
      advice |-> "Possible stomach infection or food poisoning. Hydrate with ORS; seek care if persistent.",
      threshold |-> 3],
     [name |-> "Dengue (consider regionally)",
      weights |-> << <<"fever", 2>>, <<"headache", 1>>, <<"joint pain", 2>>, <<"rash", 1>>,
                     <<"high temperature (>=38C)", 2>> >>,
      advice |-> "Dengue possible - avoid NSAIDs, hydrate, and seek evaluation.",
      threshold |-> 4],
     [name |-> "Diabetes (possible indicators)",
      weights |-> << <<"frequent urination", 3>>, <<"excessive thirst", 3>>, <<"fatigue", 1>>,
                     <<"weight loss", 2>> >>,
      advice |-> "Symptoms suggesting diabetes. See a clinic for blood sugar testing.",
      threshold |-> 4],
     [name |-> "Tuberculosis (possible)",
      weights |-> << <<"persistent cough", 3>>, <<"weight loss", 2>>, <<"night sweats", 2>>,
                     <<"fever", 1>> >>,
      advice |-> "Persistent cough with weight loss/night sweats may suggest TB. Seek testing at a clinic.",
      threshold |-> 4],
     [name |-> "Arthritis (possible)",
      weights |-> << <<"joint pain", 2>>, <<"stiffness", 2>>, <<"swelling", 2>> >>,
      advice |-> "Joint pain and stiffness may indicate arthritis or inflammatory condition. See a clinician for evaluation.",
      threshold |-> 3],
     [name |-> "Heart Attack (EMERGENCY)",
      weights |-> << <<"chest pain", 4>>, <<"shortness of breath", 4>>, <<"sweating", 2>> >>,
      advice |-> "Severe chest pain with breathlessness and sweating could indicate a heart attack. Call emergency services immediately.",
      threshold |-> 6],
     [name |-> "Stroke (EMERGENCY suggestion)",
      weights |-> << <<"sudden weakness or slurred speech", 5>>, <<"dizziness", 2>>,
                     <<"sudden severe headache", 3>> >>,
      advice |-> "Sudden weakness or slurred speech may indicate stroke. Seek emergency care immediately.",
      threshold |-> 5] >>

COMBINATION_MESSAGE ==
  "Combination of chest pain and breathing difficulty - this may be life-threatening."

----------------------------------------------------------------------------
\* Helpers on sequences

Range(seq) == { seq[i] : i \in DOMAIN seq }

\* set(selected)
ToSet(selected) == Range(selected)

\* list(dict.fromkeys(msgs)): every value once, at its first occurrence
RECURSIVE Unique(_)
Unique(msgs) ==
  IF msgs = << >> THEN << >>
  ELSE LET front == Unique(SubSeq(msgs, 1, Len(msgs) - 1))
           last  == msgs[Len(msgs)]
       IN  IF last \in Range(front) THEN front ELSE Append(front, last)

\* int(w/2): true division, then truncation toward zero
IntHalf(w) == IF w >= 0 THEN w \div 2 ELSE -((-w) \div 2)

----------------------------------------------------------------------------
\* score_conditions

\* Mutant: the half credit for "cough" is tested before the direct match.
ContributionCoughFirst(s, w, sel) ==
  IF s = "persistent cough" /\ "cough" \in sel THEN IntHalf(w)
  ELSE IF s \in sel THEN w
  ELSE (IF s = "shortness of breath" /\ "difficulty breathing" \in sel THEN w ELSE 0)
     + (IF s = "difficulty breathing" /\ "shortness of breath" \in sel THEN w ELSE 0)

\* Mutant: only one direction of the breathing bridge.
ContributionOneWay(s, w, sel) ==
  IF s \in sel THEN w
  ELSE (IF s = "shortness of breath" /\ "difficulty breathing" \in sel THEN w ELSE 0)
     + (IF s = "persistent cough" /\ "cough" \in sel /\ "persistent cough" \notin sel
        THEN IntHalf(w) ELSE 0)

\* Mutant: a looser label also counts for "abdominal pain" and "vomiting",
\* as it does in red_flag_messages.
ContributionLoose(s, w, sel) ==
  IF s \in sel THEN w
  ELSE (IF s = "shortness of breath" /\ "difficulty breathing" \in sel THEN w ELSE 0)
     + (IF s = "difficulty breathing" /\ "shortness of breath" \in sel THEN w ELSE 0)
     + (IF s = "persistent cough" /\ "cough" \in sel /\ "persistent cough" \notin sel
        THEN IntHalf(w) ELSE 0)
     + (IF s = "abdominal pain" /\ "severe abdominal pain" \in sel THEN w ELSE 0)
     + (IF s = "vomiting" /\ "persistent vomiting" \in sel THEN w ELSE 0)

\* Mutant: the half credit is rounded up.
ContributionHalfUp(s, w, sel) ==
  IF s \in sel THEN w
  ELSE (IF s = "shortness of breath" /\ "difficulty breathing" \in sel THEN w ELSE 0)
     + (IF s = "difficulty breathing" /\ "shortness of breath" \in sel THEN w ELSE 0)
     + (IF s = "persistent cough" /\ "cough" \in sel /\ "persistent cough" \notin sel
        THEN (w + 1) \div 2 ELSE 0)

\* Mutant: "fever" also counts for the temperature label, as a synonym.
ContributionFeverBridge(s, w, sel) ==
  IF s \in sel THEN w
  ELSE (IF s = "shortness of breath" /\ "difficulty breathing" \in sel THEN w ELSE 0)
     + (IF s = "difficulty breathing" /\ "shortness of breath" \in sel THEN w ELSE 0)
     + (IF s = "persistent cough" /\ "cough" \in sel /\ "persistent cough" \notin sel
        THEN IntHalf(w) ELSE 0)
     + (IF s = "high temperature (>=38C)" /\ "fever" \in sel THEN w ELSE 0)

\* Mutant: "headache" also counts for "sudden severe headache", the way "cough"
\* counts for "persistent cough", in full.
ContributionHeadacheBridge(s, w, sel) ==
  IF s \in sel THEN w
  ELSE (IF s = "shortness of breath" /\ "difficulty breathing" \in sel THEN w ELSE 0)
     + (IF s = "difficulty breathing" /\ "shortness of breath" \in sel THEN w ELSE 0)
     + (IF s = "persistent cough" /\ "cough" \in sel /\ "persistent cough" \notin sel
        THEN IntHalf(w) ELSE 0)
     + (IF s = "sudden severe headache" /\ "headache" \in sel THEN w ELSE 0)

\* What one (s, w) item of a weight map adds to the score: the body of the
\* inner loop.  The three tests of the else branch are independent ifs.
Contribution(s, w, sel) ==
  IF s \in sel THEN w
  ELSE (IF s = "shortness of breath" /\ "difficulty breathing" \in sel THEN w ELSE 0)
     + (IF s = "difficulty breathing" /\ "shortness of breath" \in sel THEN w ELSE 0)
     + (IF s = "persistent cough" /\ "cough" \in sel /\ "persistent cough" \notin sel
        THEN IntHalf(w) ELSE 0)

\* The inner loop: score starts at 0 and takes every item's contribution.
RECURSIVE Score(_, _)
Score(weights, sel) ==
  IF weights = << >> THEN 0
  ELSE Score(SubSeq(weights, 1, Len(weights) - 1), sel)
       + Contribution(weights[Len(weights)][1], weights[Len(weights)][2], sel)

\* Mutant: an entry goes before the entries of equal score.
InsertByScoreBeforeEqual(sorted, e) ==
  LET k == Cardinality({ i \in DOMAIN sorted : sorted[i][2] > e[2] })
  IN  SubSeq(sorted, 1, k) \o << e >> \o SubSeq(sorted, k + 1, Len(sorted))

\* One step of the stable descending sort: e goes after every entry whose
\* score is at least its own.
InsertByScore(sorted, e) ==
  LET k == Cardinality({ i \in DOMAIN sorted : sorted[i][2] >= e[2] })
  IN  SubSeq(sorted, 1, k) \o << e >> \o SubSeq(sorted, k + 1, Len(sorted))

\* results.sort(key=lambda x: x[1], reverse=True): list.sort is stable, and
\* with reverse=True entries of equal key keep their original order.
RECURSIVE SortByScore(_)
SortByScore(results) ==
  IF results = << >> THEN << >>
  ELSE InsertByScore(SortByScore(SubSeq(results, 1, Len(results) - 1)),
                     results[Len(results)])

\* Mutant: only the profiles that reach their threshold are returned.
score_conditions_matches_only(selected) ==
  LET sel == ToSet(selected)
      results == [ i \in 1..Len(CONDITIONS) |->
                     << CONDITIONS[i].name, Score(CONDITIONS[i].weights, sel),
                        CONDITIONS[i].advice, CONDITIONS[i].threshold >> ]
  IN  SortByScore(SelectSeq(results, LAMBDA r : r[2] >= r[4]))

score_conditions(selected) ==
  LET sel == ToSet(selected)
      results == [ i \in 1..Len(CONDITIONS) |->
                     << CONDITIONS[i].name, Score(CONDITIONS[i].weights, sel),
                        CONDITIONS[i].advice, CONDITIONS[i].threshold >> ]
  IN  SortByScore(results)

----------------------------------------------------------------------------
\* red_flag_messages

\* Mutant: the stroke rule has no test for "dizziness".
RuleMessagesNoDizziness(key, msg, sel) ==
     (IF key \in sel THEN << msg >> ELSE << >>)
  \o (IF key = "persistent vomiting" /\ "vomiting" \in sel THEN << msg >> ELSE << >>)
  \o (IF key = "severe abdominal pain" /\ "abdominal pain" \in sel THEN << msg >> ELSE << >>)
  \o (IF /\ key = "sudden weakness or slurred speech"
         /\ \/ "slurred speech" \in sel
            \/ "sudden weakness" \in sel
      THEN << msg >> ELSE << >>)

\* What one (key, msg) item of RED_FLAGS appends to msgs: the body of the loop.
RuleMessages(key, msg, sel) ==
     (IF key \in sel THEN << msg >> ELSE << >>)
  \o (IF key = "persistent vomiting" /\ "vomiting" \in sel THEN << msg >> ELSE << >>)
  \o (IF key = "severe abdominal pain" /\ "abdominal pain" \in sel THEN << msg >> ELSE << >>)
  \o (IF /\ key = "sudden weakness or slurred speech"
         /\ \/ "dizziness" \in sel
            \/ "slurred speech" \in sel
            \/ "sudden weakness" \in sel
      THEN << msg >> ELSE << >>)

\* The loop over RED_FLAGS.items(), in the table's order.
RECURSIVE TableMessages(_, _)
TableMessages(rules, sel) ==
  IF rules = << >> THEN << >>
  ELSE TableMessages(SubSeq(rules, 1, Len(rules) - 1), sel)
       \o RuleMessages(rules[Len(rules)][1], rules[Len(rules)][2], sel)

\* Mutant: the combination needs "shortness of breath", as the comment of the
\* check says.
CombinationMessagesShortnessOnly(sel) ==
  IF "chest pain" \in sel /\ "shortness of breath" \in sel
  THEN << COMBINATION_MESSAGE >> ELSE << >>

\* The manual check for chest pain with a breathing label.
CombinationMessages(sel) ==
  IF "chest pain" \in sel
     /\ ("difficulty breathing" \in sel \/ "shortness of breath" \in sel)
  THEN << COMBINATION_MESSAGE >> ELSE << >>

\* Mutant: the list is returned without dict.fromkeys.
red_flag_messages_no_unique(selected) ==
  LET sel == ToSet(selected)
  IN  TableMessages(RED_FLAGS, sel) \o CombinationMessages(sel)

\* Mutant: the combination is checked before the table.
red_flag_messages_combination_first(selected) ==
  LET sel == ToSet(selected)
  IN  Unique(CombinationMessages(sel) \o TableMessages(RED_FLAGS, sel))

red_flag_messages(selected) ==
  LET sel == ToSet(selected)
  IN  Unique(TableMessages(RED_FLAGS, sel) \o CombinationMessages(sel))

----------------------------------------------------------------------------
\* The callers of the two functions

\* The page's "Possible Matches": the results whose score reaches the
\* threshold, in the order of results.
Matches(rs) == SelectSeq(rs, LAMBDA r : r[2] >= r[4])

\* Labels that a table or a test of the code names and SYMPTOMS does not hold,
\* and one label that nothing names.
OTHER_LABELS ==
  << "persistent vomiting", "severe abdominal pain",
     "sudden weakness or slurred speech", "slurred speech", "sudden weakness",
     "sudden severe headache", "toothache" >>

\* The labels an input list is drawn from.  The page passes labels of
\* SYMPTOMS only; a direct caller of the functions may pass any string.
LABELS == SYMPTOMS \o OTHER_LABELS

LabelIndex(x) == CHOOSE i \in DOMAIN LABELS : LABELS[i] = x

VARIABLES
  selected,   \* the list handed to the functions
  analyzed,   \* whether "Analyze" was pressed for this selection
  flags,      \* what red_flag_messages returned
  results     \* what score_conditions returned

vars == << selected, analyzed, flags, results >>

Init ==
  /\ selected = << >>
  /\ analyzed = FALSE
  /\ flags = << >>
  /\ results = << >>

\* One more label in the list.  Both functions read the list through
\* set(selected) only, so lists are enumerated up to the order of their labels
\* (in the order of LABELS); a label may repeat.  What an earlier press
\* of the button showed is gone with the rerun.
Select(x) ==
  /\ Len(selected) < MaxSelected
  /\ IF selected = << >> THEN TRUE
     ELSE LabelIndex(selected[Len(selected)]) <= LabelIndex(x)
  /\ selected' = Append(selected, x)
  /\ analyzed' = FALSE
  /\ flags' = << >>
  /\ results' = << >>

\* The button: both functions are called on the selection.
Analyze ==
  /\ ~analyzed
  /\ flags' = red_flag_messages(selected)
  /\ results' = score_conditions(selected)
  /\ analyzed' = TRUE
  /\ UNCHANGED selected

Next ==
  \/ \E x \in Range(LABELS) : Select(x)
  \/ Analyze

Spec == Init /\ [][Next]_vars

----------------------------------------------------------------------------
\* Properties

sel == ToSet(selected)

\* The score a result list gives to the profile called name.
ScoreIn(rs, name) == rs[CHOOSE j \in DOMAIN rs : rs[j][1] = name][2]

\* The place of a profile in CONDITIONS.
DeclIndex(name) == CHOOSE i \in DOMAIN CONDITIONS : CONDITIONS[i].name = name

OutsideVocabulary == Range(LABELS) \ Range(SYMPTOMS)

\* C1: whatever the input list (empty, labels of the vocabulary, labels
\* outside it), score_conditions returns as many entries as CONDITIONS has
\* profiles, and every profile name occurs in exactly one of them.
C1_OneEntryPerProfile ==
  analyzed =>
    /\ Len(results) = Len(CONDITIONS)
    /\ \A i \in DOMAIN CONDITIONS :
         Cardinality({ j \in DOMAIN results : results[j][1] = CONDITIONS[i].name }) = 1

\* An analysed selection with a label outside the vocabulary whose result
\* holds all the profiles, one of them below and one at its threshold.
C1_Witness ==
  /\ analyzed
  /\ sel \cap OutsideVocabulary # {}
  /\ Len(results) = Len(CONDITIONS)
  /\ \E j \in DOMAIN results : results[j][2] < results[j][4]
  /\ \E j \in DOMAIN results : results[j][2] >= results[j][4]

\* C2: the result of score_conditions is in descending order of score, and
\* two profiles of equal score stand in their order of declaration in
\* CONDITIONS.
C2_SortedStable ==
  analyzed =>
    \A i, j \in DOMAIN results :
      i < j =>
        /\ results[i][2] >= results[j][2]
        /\ results[i][2] = results[j][2] =>
             DeclIndex(results[i][1]) < DeclIndex(results[j][1])

\* An analysed selection where a later profile outranks an earlier one and
\* two profiles tie on a positive score.
C2_Witness ==
  /\ analyzed
  /\ \E i, j \in DOMAIN results :
       /\ i < j
       /\ DeclIndex(results[i][1]) > DeclIndex(results[j][1])
  /\ \E i, j \in DOMAIN results :
       /\ i < j
       /\ results[i][2] = results[j][2]
       /\ results[i][2] > 0

\* The input list without the label u.
Without(u) == SelectSeq(selected, LAMBDA x : x # u)

SameScores(rs1, rs2) ==
  \A i \in DOMAIN CONDITIONS :
    ScoreIn(rs1, CONDITIONS[i].name) = ScoreIn(rs2, CONDITIONS[i].name)

\* The labels some weight map has as a key.
WeightKeys ==
  UNION { { CONDITIONS[i].weights[k][1] : k \in DOMAIN CONDITIONS[i].weights } :
          i \in DOMAIN CONDITIONS }

\* The labels red_flag_messages looks for in the selection by name: the keys
\* of RED_FLAGS and the labels of its mapped tests.
FlagTriggers ==
  { RED_FLAGS[i][1] : i \in DOMAIN RED_FLAGS }
    \cup { "vomiting", "abdominal pain", "dizziness", "slurred speech", "sudden weakness",
           "chest pain", "difficulty breathing", "shortness of breath" }

\* C3, as claimed: a label that is not in SYMPTOMS is ignored by both
\* functions: with it or without it in the selection, every profile has the
\* same score and the red flag list is the same.
C3_UnknownIgnored ==
  analyzed =>
    \A u \in sel \cap OutsideVocabulary :
      /\ SameScores(results, score_conditions(Without(u)))
      /\ flags = red_flag_messages(Without(u))

\* C3, amended: a label that is not in SYMPTOMS is ignored by score_conditions
\* unless it is a key of some weight map, and by red_flag_messages unless it
\* is a key of RED_FLAGS or one of the labels its mapped tests name.
C3_UnnamedIgnored ==
  analyzed =>
    \A u \in sel \cap OutsideVocabulary :
      /\ u \notin WeightKeys => SameScores(results, score_conditions(Without(u)))
      /\ u \notin FlagTriggers => flags = red_flag_messages(Without(u))

\* An analysed selection with a label no table names, next to labels that
\* score and raise a flag; and one with a RED_FLAGS key that no weight map has.
C3_Witness ==
  /\ analyzed
  /\ \E u \in sel \cap OutsideVocabulary :
       /\ u \notin WeightKeys
       /\ u \notin FlagTriggers
       /\ flags # << >>
       /\ \E j \in DOMAIN results : results[j][2] > 0
       /\ \E v \in sel \cap OutsideVocabulary : v \in FlagTriggers /\ v \notin WeightKeys

\* C4: adding a label to the selection lowers no profile's score: every
\* profile scores at least what it scores with any one label taken out.
C4_Monotonic ==
  analyzed =>
    \A x \in sel :
      \A i \in DOMAIN CONDITIONS :
        Score(CONDITIONS[i].weights, sel \ {x}) <= ScoreIn(results, CONDITIONS[i].name)

\* "persistent cough" next to "cough": the profile with the cough bridge scores
\* more with both than with "cough" alone.
C4_Witness ==
  /\ analyzed
  /\ {"cough", "persistent cough"} \subseteq sel
  /\ ScoreIn(results, "Tuberculosis (possible)")
       > Score(CONDITIONS[DeclIndex("Tuberculosis (possible)")].weights,
               sel \ {"persistent cough"})

\* C5: for a selection with neither breathing label, adding "difficulty
\* breathing" and adding "shortness of breath" give the same score to every
\* profile whose weight map has one of the two labels.
C5_BreathingSymmetry ==
  (analyzed /\ "difficulty breathing" \in sel /\ "shortness of breath" \notin sel) =>
    \A i \in DOMAIN CONDITIONS :
      (\E k \in DOMAIN CONDITIONS[i].weights :
          CONDITIONS[i].weights[k][1] \in {"difficulty breathing", "shortness of breath"})
      => ScoreIn(results, CONDITIONS[i].name)
           = Score(CONDITIONS[i].weights,
                   (sel \ {"difficulty breathing"}) \cup {"shortness of breath"})

\* "difficulty breathing" alone: the profile that has only this label scores
\* its weight, the profile that has only the other label scores that weight.
C5_Witness ==
  /\ analyzed
  /\ sel = {"difficulty breathing"}
  /\ ScoreIn(results, "COVID-19 (possible)") = 3
  /\ ScoreIn(results, "Heart Attack (EMERGENCY)") = 4

\* C6: red_flag_messages returns no message twice, also when a message is
\* reached on two paths (its key and a mapped label in the same selection).
C6_NoDuplicateMessages ==
  analyzed =>
    \A i, j \in DOMAIN flags : i # j => flags[i] # flags[j]

\* The stroke message reached by its key and by "dizziness" at once.
C6_Witness ==
  /\ analyzed
  /\ {"sudden weakness or slurred speech", "dizziness"} \subseteq sel
  /\ RED_FLAGS[Len(RED_FLAGS)][2] \in Range(flags)

\* The place of a message in the order of the rules: its place in RED_FLAGS,
\* and after all of them for the combination message.
MessageRank(msg) ==
  IF msg = COMBINATION_MESSAGE THEN Len(RED_FLAGS) + 1
  ELSE CHOOSE i \in DOMAIN RED_FLAGS : RED_FLAGS[i][2] = msg

\* C7: the messages of red_flag_messages stand in the order of declaration of
\* their rules in RED_FLAGS, the combination message after all table messages.
C7_FlagOrder ==
  analyzed =>
    /\ \A i \in DOMAIN flags :
         flags[i] \in { RED_FLAGS[k][2] : k \in DOMAIN RED_FLAGS } \cup {COMBINATION_MESSAGE}
    /\ \A i, j \in DOMAIN flags :
         i < j => MessageRank(flags[i]) < MessageRank(flags[j])

\* Two direct messages, a mapped message and the combination message.
C7_Witness ==
  /\ analyzed
  /\ Len(flags) = 4
  /\ flags[4] = COMBINATION_MESSAGE
  /\ "vomiting" \in sel

\* C8: every key of a weight map of CONDITIONS is a label of SYMPTOMS, or a
\* label that a bridge of the scorer credits for a selected label of SYMPTOMS;
\* stated of the profiles score_conditions returns.
C8_ClosedVocabulary ==
  \A j \in DOMAIN results :
    LET weights == CONDITIONS[DeclIndex(results[j][1])].weights
    IN  \A k \in DOMAIN weights :
          \/ weights[k][1] \in Range(SYMPTOMS)
          \/ \E v \in Range(SYMPTOMS) : Contribution(weights[k][1], weights[k][2], {v}) > 0

\* C9: for "chest pain" with "difficulty breathing" red_flag_messages returns
\* the chest pain message, the breathing difficulty message and the
\* combination message; and the combination message is returned exactly when
\* "chest pain" is selected with one of the two breathing labels.
C9_CompoundRedFlag ==
  analyzed =>
    /\ sel = {"chest pain", "difficulty breathing"} =>
         flags = << RED_FLAGS[1][2], RED_FLAGS[2][2], COMBINATION_MESSAGE >>
    /\ COMBINATION_MESSAGE \in Range(flags)
         <=> /\ "chest pain" \in sel
             /\ "difficulty breathing" \in sel \/ "shortness of breath" \in sel

C9_Witness ==
  /\ analyzed
  /\ sel = {"chest pain", "difficulty breathing"}
  /\ Len(flags) = 3

\* The weight map without its k-th item.
WithoutItem(weights, k) ==
  SubSeq(weights, 1, k - 1) \o SubSeq(weights, k + 1, Len(weights))

\* C10: a "persistent cough" item of weight w adds floor(w/2) to its profile's
\* score when "cough" is selected and "persistent cough" is not, and exactly w
\* when "persistent cough" is selected, with or without "cough"; "cough" alone
\* gives Tuberculosis the score 1.
C10_CoughPartialCredit ==
  analyzed =>
    /\ \A i \in DOMAIN CONDITIONS :
         \A k \in DOMAIN CONDITIONS[i].weights :
           CONDITIONS[i].weights[k][1] = "persistent cough" =>
             LET w == CONDITIONS[i].weights[k][2]
                 added == ScoreIn(results, CONDITIONS[i].name)
                            - Score(WithoutItem(CONDITIONS[i].weights, k), sel)
             IN  /\ ("cough" \in sel /\ "persistent cough" \notin sel) => added = w \div 2
                 /\ "persistent cough" \in sel => added = w
    /\ sel = {"cough"} => ScoreIn(results, "Tuberculosis (possible)") = 1

C10_Witness ==
  /\ analyzed
  /\ sel = {"cough"}
  /\ ScoreIn(results, "Tuberculosis (possible)") = 1

\* The threshold a result list carries for the profile called name.
ThresholdIn(rs, name) == rs[CHOOSE j \in DOMAIN rs : rs[j][1] = name][4]

\* C11: for the selection of "fever", "chills" and "headache", Malaria scores
\* 7, which reaches its threshold 4, and Typhoid scores 3, which is below its
\* threshold 4.
C11_MalariaExample ==
  (analyzed /\ sel = {"fever", "chills", "headache"}) =>
    /\ ScoreIn(results, "Malaria") = 7
    /\ ThresholdIn(results, "Malaria") = 4
    /\ ScoreIn(results, "Malaria") >= ThresholdIn(results, "Malaria")
    /\ ScoreIn(results, "Typhoid") = 3
    /\ ThresholdIn(results, "Typhoid") = 4
    /\ ScoreIn(results, "Typhoid") < ThresholdIn(results, "Typhoid")

C11_Witness ==
  /\ analyzed
  /\ sel = {"fever", "chills", "headache"}
  /\ results[1][1] = "Malaria"

\* C12: for the empty selection red_flag_messages returns the empty list, and
\* score_conditions returns every profile with the score 0, in the order of
\* declaration of CONDITIONS.
C12_EmptySelection ==
  (analyzed /\ selected = << >>) =>
    /\ flags = << >>
    /\ Len(results) = Len(CONDITIONS)
    /\ \A i \in DOMAIN results :
         /\ results[i][1] = CONDITIONS[i].name
         /\ results[i][2] = 0

C12_Witness ==
  /\ analyzed
  /\ selected = << >>
  /\ Len(results) = Len(CONDITIONS)
  /\ flags = << >>

BREATHING == {"difficulty breathing", "shortness of breath"}

\* C13, the credit the claim states for one (symptom, weight) item: the weight
\* for a selected symptom, else the weight when the symptom and a selected
\* label are the two breathing labels, else floor(weight/2) for "persistent
\* cough" when "cough" is selected, else 0.
StatedCredit(s, w, S) ==
  IF s \in S THEN w
  ELSE IF s \in BREATHING /\ (BREATHING \ {s}) \cap S # {} THEN w
  ELSE IF s = "persistent cough" /\ "cough" \in S THEN w \div 2
  ELSE 0

RECURSIVE StatedScore(_, _)
StatedScore(weights, S) ==
  IF weights = << >> THEN 0
  ELSE StatedCredit(weights[1][1], weights[1][2], S) + StatedScore(Tail(weights), S)

\* The labels that can count for a key they are not: the sources of the bridges.
BRIDGE_SOURCES == BREATHING \cup {"cough"}

\* C13: the two bridges are the only contributions across labels: every
\* profile's score is the sum of the stated credits of its items, and a
\* selected label that is neither a key of the profile's weight map nor the
\* source of a bridge leaves the profile's score as it is without the label.
C13_OnlyTwoBridges ==
  analyzed =>
    \A i \in DOMAIN CONDITIONS :
      LET weights == CONDITIONS[i].weights
          keys == { weights[k][1] : k \in DOMAIN weights }
      IN  /\ ScoreIn(results, CONDITIONS[i].name) = StatedScore(weights, sel)
          /\ \A x \in sel \ (keys \cup BRIDGE_SOURCES) :
               ScoreIn(results, CONDITIONS[i].name) = Score(weights, sel \ {x})

\* A selection where a bridge, a direct match and a label foreign to the
\* profile meet: "cough" (half credit for Tuberculosis), "fever" (its own
\* weight) and "severe abdominal pain" (no key of any weight map).
C13_Witness ==
  /\ analyzed
  /\ sel = {"cough", "fever", "severe abdominal pain"}
  /\ ScoreIn(results, "Tuberculosis (possible)") = 2
  /\ ScoreIn(results, "Typhoid") = 2

STROKE_MESSAGE == "Possible stroke - seek emergency care immediately."

STROKE_LABELS ==
  {"sudden weakness or slurred speech", "dizziness", "slurred speech", "sudden weakness"}

\* C14: red_flag_messages returns the stroke message exactly when the
\* selection holds one of "sudden weakness or slurred speech", "dizziness",
\* "slurred speech", "sudden weakness"; for "dizziness" alone it is the one
\* message returned.
C14_StrokeFlag ==
  analyzed =>
    /\ STROKE_MESSAGE \in Range(flags) <=> sel \cap STROKE_LABELS # {}
    /\ sel = {"dizziness"} => flags = << STROKE_MESSAGE >>

C14_Witness ==
  /\ analyzed
  /\ sel = {"dizziness"}
  /\ flags = << STROKE_MESSAGE >>

STROKE == "Stroke (EMERGENCY suggestion)"

\* The selections of at most two labels of the vocabulary.
VocabularyPairs == { {a, b} : a, b \in Range(SYMPTOMS) }

\* Every profile but Stroke reaches its threshold for some selection of at
\* most two labels of the vocabulary.
OthersCanMatch ==
  \A i \in DOMAIN CONDITIONS :
    CONDITIONS[i].name # STROKE =>
      \E S \in VocabularyPairs : Score(CONDITIONS[i].weights, S) >= CONDITIONS[i].threshold

\* What Stroke scores when every label of the vocabulary is selected.
StrokeScoreOfVocabulary ==
  Score(CONDITIONS[DeclIndex(STROKE)].weights, Range(SYMPTOMS))

\* C15: for a selection of labels of SYMPTOMS only, Stroke scores at most 2,
\* below its threshold 5, and is not among the matches of the page, also with
\* the whole vocabulary selected; every other profile reaches its threshold
\* for some selection of labels of SYMPTOMS.
C15_StrokeNeverMatches ==
  (analyzed /\ sel \subseteq Range(SYMPTOMS)) =>
    /\ ScoreIn(results, STROKE) <= 2
    /\ ThresholdIn(results, STROKE) = 5
    /\ \A j \in DOMAIN Matches(results) : Matches(results)[j][1] # STROKE
    /\ StrokeScoreOfVocabulary <= 2
    /\ OthersCanMatch

\* "dizziness" selected from the vocabulary: Stroke scores all it can, 2, and
\* another profile is a match.
C15_Witness ==
  /\ analyzed
  /\ sel \subseteq Range(SYMPTOMS)
  /\ "dizziness" \in sel
  /\ ScoreIn(results, STROKE) = 2
  /\ Matches(results) # << >>

====
